---- MODULE Spec2Model ----
(***************************************************************************)
(* A model of first_try.py: the Streamlit script that sends each uploaded  *)
(* image to a vision model, strips code fences from the reply, parses it   *)
(* as JSON, flattens every entry into a row of all_data and offers the     *)
(* rows as one spreadsheet.                                                *)
(*                                                                         *)
(* A response text is a sequence of tokens.  "tick" is one backtick, "nl"  *)
(* a newline, " " a space; "json" is the language tag; "[", "]", ","       *)
(* are JSON punctuation; "5" is a JSON number; "x" is text that is not     *)
(* JSON; a name of ObjNames is the text of one JSON object.                *)
(***************************************************************************)
EXTENDS Naturals, Sequences, FiniteSets, TLC

\* ------------------------------------------------------------- bounds

MaxImages == 3
MaxParts == 3
MaxContacts == 2

\* ------------------------------------------------------------ entries

StrKeys == {"EstablishmentType", "HostelName", "KeyService", "AccommodationOptions"}
LandKeys == {"Landmark1", "Landmark2"}
StrVals == {"", "A"}
Phones == {"111", "222"}

Columns ==
    {"EstablishmentType", "HostelName", "Landmark1", "Landmark2",
     "KeyService", "AccommodationOptions", "ContactNumbers"}

\* A value met while iterating a parsed response.  kind "dict" is a JSON
\* object: str holds the string-valued keys that are present, loc says
\* whether LocationDetails is absent, a mapping (lm) or null, con says
\* whether ContactNumbers is absent, a list of strings (nums) or null, and
\* extra says whether a key outside the schema is present.  Every other kind
\* ("num", "list", "str") is a value that is not a mapping.
Elem(kind, str, loc, lm, con, nums, extra) ==
    [kind |-> kind, str |-> str, loc |-> loc, lm |-> lm,
     con |-> con, nums |-> nums, extra |-> extra]

NoStr == [k \in {} |-> ""]

NonDict(kind) == Elem(kind, NoStr, "absent", NoStr, "absent", <<>>, FALSE)

Dict(str, loc, lm, con, nums, extra) == Elem("dict", str, loc, lm, con, nums, extra)

\* entry.get(key, "") of lines 86-91.
Get(m, key) == IF key \in DOMAIN m THEN m[key] ELSE ""

RECURSIVE Join(_)
\* ", ".join(seq) of line 92.
Join(seq) ==
    IF seq = <<>> THEN ""
    ELSE IF Len(seq) = 1 THEN seq[1]
    ELSE seq[1] \o ", " \o Join(Tail(seq))

EmptyRow == [c \in Columns |-> ""]

\* Lines 85-93 with entry.get("ContactNumbers", []) replaced by
\* entry["ContactNumbers"]: a missing key raises.
FlattenStrict(entry) ==
    IF \/ entry.kind # "dict"
       \/ entry.loc = "null"
       \/ entry.con # "list"
    THEN [ok |-> FALSE, row |-> EmptyRow]
    ELSE [ok |-> TRUE,
          row |-> [c \in Columns |->
                     IF c \in StrKeys THEN Get(entry.str, c)
                     ELSE IF c \in LandKeys
                          THEN (IF entry.loc = "map" THEN Get(entry.lm, c) ELSE "")
                     ELSE Join(entry.nums)]]

\* Lines 85-93: the flat_data of one entry, or the exception the dict
\* display raises: entry.get on a value that is no mapping, .get on a null
\* LocationDetails, ", ".join of a null ContactNumbers.
Flatten(entry) ==
    IF \/ entry.kind # "dict"
       \/ entry.loc = "null"
       \/ entry.con = "null"
    THEN [ok |-> FALSE, row |-> EmptyRow]
    ELSE [ok |-> TRUE,
          row |-> [c \in Columns |->
                     IF c \in StrKeys THEN Get(entry.str, c)
                     ELSE IF c \in LandKeys
                          THEN (IF entry.loc = "map" THEN Get(entry.lm, c) ELSE "")
                     ELSE IF entry.con = "list" THEN Join(entry.nums)
                     ELSE Join(<<>>)]]

\* ------------------------------------------------- the objects of a text

ObjNames == {"o1", "o2", "o3", "o4"}

\* json.loads of the text of one object: o1 is the example of the prompt's
\* schema, o2 has every key missing, o3 has one landmark and no contact
\* numbers, o4 has a null LocationDetails.
Obj(name) ==
    CASE name = "o1" ->
           Dict([k \in StrKeys |-> "A"], "map", [k \in LandKeys |-> "A"],
                "list", <<"111", "222">>, FALSE)
      [] name = "o2" ->
           Dict(NoStr, "absent", NoStr, "absent", <<>>, FALSE)
      [] name = "o3" ->
           Dict([k \in {"HostelName"} |-> "A"], "map", [k \in {"Landmark2"} |-> "A"],
                "absent", <<>>, TRUE)
      [] OTHER ->
           Dict([k \in {"HostelName"} |-> "A"], "null", NoStr, "list", <<"111">>, FALSE)

\* --------------------------------------------------- response normalizer

IsTick(t, i) == i >= 1 /\ i <= Len(t) /\ t[i] = "tick"

Fence(t, i) == IsTick(t, i) /\ IsTick(t, i + 1) /\ IsTick(t, i + 2)

\* ^ under re.MULTILINE: the start of the text or just after a newline.
LineStart(t, i) == i = 1 \/ (i > 1 /\ i <= Len(t) + 1 /\ t[i - 1] = "nl")

\* $ under re.MULTILINE: the end of the text or just before a newline.
LineEnd(t, i) == i = Len(t) + 1 \/ (i <= Len(t) /\ t[i] = "nl")

RECURSIVE SubNoTag(_, _)
\* re.sub of the pattern without the optional tag: three backticks at a line
\* start or at a line end.
SubNoTag(t, i) ==
    IF i > Len(t) THEN <<>>
    ELSE IF Fence(t, i) /\ (LineStart(t, i) \/ LineEnd(t, i + 3))
         THEN SubNoTag(t, i + 3)
    ELSE <<t[i]>> \o SubNoTag(t, i + 1)

RECURSIVE SubFrom(_, _)
\* re.sub with re.MULTILINE from token i on: three backticks at a line start
\* with the optional tag, or three backticks at a line end; the leftmost
\* match is removed, the first alternative tried first.
SubFrom(t, i) ==
    IF i > Len(t) THEN <<>>
    ELSE IF LineStart(t, i) /\ Fence(t, i)
         THEN IF i + 3 <= Len(t) /\ t[i + 3] = "json"
              THEN SubFrom(t, i + 4)
              ELSE SubFrom(t, i + 3)
    ELSE IF Fence(t, i) /\ LineEnd(t, i + 3)
         THEN SubFrom(t, i + 3)
    ELSE <<t[i]>> \o SubFrom(t, i + 1)

StripFencesNoTag(t) == SubNoTag(t, 1)

\* Line 77, the re.sub call.
StripFences(t) == SubFrom(t, 1)

IsSpace(c) == c = " " \/ c = "nl"

RECURSIVE LStrip(_)
LStrip(t) == IF t # <<>> /\ IsSpace(t[1]) THEN LStrip(Tail(t)) ELSE t

RECURSIVE RStrip(_)
RStrip(t) ==
    IF t # <<>> /\ IsSpace(t[Len(t)]) THEN RStrip(SubSeq(t, 1, Len(t) - 1)) ELSE t

\* Line 77, .strip().
Strip(t) == RStrip(LStrip(t))

\* Line 77: clean_text.
CleanText(t) == Strip(StripFences(t))

RECURSIVE SkipWs(_, _)
SkipWs(t, i) == IF i <= Len(t) /\ IsSpace(t[i]) THEN SkipWs(t, i + 1) ELSE i

RECURSIVE SkipDigits(_, _)
\* The end of a number: digits that follow a digit belong to it.
SkipDigits(t, i) == IF i <= Len(t) /\ t[i] = "5" THEN SkipDigits(t, i + 1) ELSE i

ParseFail == [ok |-> FALSE, next |-> 0, kind |-> "fail", items |-> <<>>]

RECURSIVE ParseValue(_, _)
RECURSIVE ParseItems(_, _, _)

\* After "[" or ",": the next element, then "," or "]".
ParseItems(t, i, acc) ==
    LET v == ParseValue(t, i)
    IN  IF ~v.ok THEN ParseFail
        ELSE LET el == IF v.kind = "dict" THEN v.items[1] ELSE NonDict(v.kind)
                 j == SkipWs(t, v.next)
             IN  IF j > Len(t) THEN ParseFail
                 ELSE IF t[j] = "," THEN ParseItems(t, j + 1, Append(acc, el))
                 ELSE IF t[j] = "]"
                      THEN [ok |-> TRUE, next |-> j + 1, kind |-> "list",
                            items |-> Append(acc, el)]
                 ELSE ParseFail

\* The JSON value that starts at token i, white space skipped: an object, a
\* number or an array.  An array's element that is itself an array or a
\* number is kept as a value that is no mapping.
ParseValue(t, i) ==
    LET j == SkipWs(t, i)
    IN  IF j > Len(t) THEN ParseFail
        ELSE IF t[j] \in ObjNames
             THEN [ok |-> TRUE, next |-> j + 1, kind |-> "dict", items |-> <<Obj(t[j])>>]
        ELSE IF t[j] = "5"
             THEN [ok |-> TRUE, next |-> SkipDigits(t, j + 1), kind |-> "num",
                   items |-> <<>>]
        ELSE IF t[j] = "["
             THEN LET k == SkipWs(t, j + 1)
                  IN  IF k <= Len(t) /\ t[k] = "]"
                      THEN [ok |-> TRUE, next |-> k + 1, kind |-> "list", items |-> <<>>]
                      ELSE ParseItems(t, j + 1, <<>>)
        ELSE ParseFail

\* Line 80, json.loads: one value and nothing but white space after it.
JsonLoads(t) ==
    LET v == ParseValue(t, 1)
    IN  IF v.ok /\ SkipWs(t, v.next) > Len(t)
        THEN [kind |-> v.kind, items |-> v.items]
        ELSE [kind |-> "fail", items |-> <<>>]

\* Lines 81-82 left out: a mapping stays a mapping.
WrapDictMissing(p) == p

\* Lines 81-82: a single mapping becomes a one-element list.
WrapDict(p) == IF p.kind = "dict" THEN [kind |-> "list", items |-> p.items] ELSE p

\* Lines 77-82: the parsed value the loop of line 84 iterates.
Normalize(t) == WrapDict(JsonLoads(CleanText(t)))

\* Line 84, iter(parsed): a list yields its elements, a mapping its keys
\* (strings), a number is not iterable.
Iterable(p) == p.kind \in {"list", "dict"}

KeyCount(e) ==
    Cardinality(DOMAIN e.str) + (IF e.loc = "absent" THEN 0 ELSE 1)
        + (IF e.con = "absent" THEN 0 ELSE 1) + (IF e.extra THEN 1 ELSE 0)

Elements(p) ==
    IF p.kind = "list" THEN p.items
    ELSE IF p.kind = "dict" THEN [n \in 1..KeyCount(p.items[1]) |-> NonDict("str")]
    ELSE <<>>

\* ------------------------------------------------------- the script run

VARIABLES
    uploaded,    \* the number of files in uploaded_images (line 54)
    api_key,     \* whether one of the environment variables is set (lines 16-21)
    pc,          \* the statement the script is at
    idx,         \* the idx of line 67: the image being processed
    all_data,    \* the list of line 64
    text,        \* response.text of the current image
    parsed,      \* parsed of lines 80-82
    k,           \* the position of entry in parsed (line 84)
    messages,    \* the st.success and st.warning calls so far, in order
    ui,          \* what else the page shows: info, init_error, table, download, error
    exports,     \* how many times the ExcelWriter block ran
    opened,      \* the Image.open calls so far, in order
    openFailed,  \* the images Image.open raised on
    sent,        \* the generate_content calls so far, in order
    textOf,      \* the response text each image got
    parsedOf,    \* the parsed value each image got
    origin,      \* for each all_data.append call, in order: <<image, entry>>
    fnPc,        \* the step of a normalizer or flattener application
    fnText,      \* the text the normalizer is applied to
    fnEntry,     \* the entry the flattener is applied to
    fnOut        \* the results of the applications

runVars ==
    <<uploaded, api_key, pc, idx, all_data, text, parsed, k, messages, ui,
      exports, opened, openFailed, sent, textOf, parsedOf, origin>>

fnVars == <<fnPc, fnText, fnEntry, fnOut>>

vars == <<runVars, fnVars>>

NoParse == [kind |-> "fail", items |-> <<>>]

NoOut == [bare |-> NoParse, fenced |-> NoParse, flat |-> [ok |-> FALSE, row |-> EmptyRow]]

Ticks == <<"tick", "tick", "tick">>

\* The text between two fence lines: the opening one with the tag or bare,
\* the closing one with or without a newline after it.
FencedBy(tag, t, tail) == Ticks \o tag \o <<"nl">> \o t \o <<"nl">> \o Ticks \o tail

Fenced(tag, t) == FencedBy(tag, t, <<>>)

\* The response texts a run's images get.
RunTexts ==
    {<<o>> : o \in ObjNames}
        \cup {<<"[", o, "]">> : o \in ObjNames}
        \cup {Fenced(<<"json">>, <<"[", "o1", ",", "nl", "o3", "]">>),
              <<"[", "o3", ",", "o4", "]">>,
              <<"[", "]">>,
              <<"5">>,
              <<"x">>}

\* The script before its first statement; pc = "off" when no run is modelled.
RunAt(p) ==
    /\ pc = p
    /\ idx = 0
    /\ all_data = <<>>
    /\ text = <<>>
    /\ parsed = NoParse
    /\ k = 0
    /\ messages = <<>>
    /\ ui = {}
    /\ exports = 0
    /\ opened = <<>>
    /\ openFailed = {}
    /\ sent = <<>>
    /\ textOf = [i \in 1..uploaded |-> <<>>]
    /\ parsedOf = [i \in 1..uploaded |-> NoParse]
    /\ origin = <<>>

RunInit ==
    /\ uploaded \in 0..MaxImages
    /\ api_key \in BOOLEAN
    /\ RunAt("start")

RunIdle ==
    /\ uploaded = 0
    /\ api_key = FALSE
    /\ RunAt("off")

FnIdle ==
    /\ fnPc = "idle"
    /\ fnText = <<>>
    /\ fnEntry = NonDict("num")
    /\ fnOut = NoOut

Init == RunInit /\ FnIdle

\* Line 56 with the api_key test left out.
GuardNoKey == uploaded > 0

\* Line 56: if uploaded_images and api_key.
Guard == uploaded > 0 /\ api_key

\* Lines 56, 120-121: the script's top-level branch.
Start ==
    /\ pc = "start"
    /\ \/ Guard /\ pc' = "init" /\ ui' = ui
       \/ ~Guard /\ pc' = "done" /\ ui' = ui \cup {"info"}
    /\ UNCHANGED <<uploaded, api_key, idx, all_data, text, parsed, k, messages,
                   exports, opened, openFailed, sent, textOf, parsedOf, origin>>
    /\ UNCHANGED fnVars

\* Lines 57-61: genai.Client(...) returns, or raises and st.stop() ends the run.
InitClient ==
    /\ pc = "init"
    /\ \/ pc' = "button" /\ ui' = ui
       \/ pc' = "done" /\ ui' = ui \cup {"init_error"}
    /\ UNCHANGED <<uploaded, api_key, idx, all_data, text, parsed, k, messages,
                   exports, opened, openFailed, sent, textOf, parsedOf, origin>>
    /\ UNCHANGED fnVars

\* Lines 63-64: the button was clicked (all_data = []) or was not.
Button ==
    /\ pc = "button"
    /\ \/ pc' = "loop" /\ all_data' = <<>>
       \/ pc' = "done" /\ all_data' = all_data
    /\ UNCHANGED <<uploaded, api_key, idx, text, parsed, k, messages, ui,
                   exports, opened, openFailed, sent, textOf, parsedOf, origin>>
    /\ UNCHANGED fnVars

\* Line 67: the next uploaded image, or the end of the loop.
NextImage ==
    /\ pc = "loop"
    /\ \/ idx < uploaded /\ idx' = idx + 1 /\ pc' = "open"
       \/ idx >= uploaded /\ idx' = idx /\ pc' = "export"
    /\ UNCHANGED <<uploaded, api_key, all_data, text, parsed, k, messages, ui,
                   exports, opened, openFailed, sent, textOf, parsedOf, origin>>
    /\ UNCHANGED fnVars

\* Lines 98-99 followed by the export block: a failure ends the loop.
WarnAbort ==
    /\ messages' = Append(messages, [kind |-> "warning", img |-> idx, n |-> 0])
    /\ pc' = "export"

\* Lines 98-99: the exception is caught, st.warning, on to the next image.
Warn ==
    /\ messages' = Append(messages, [kind |-> "warning", img |-> idx, n |-> 0])
    /\ pc' = "loop"

\* Line 69: Image.open returns or raises.
OpenImage ==
    /\ pc = "open"
    /\ opened' = Append(opened, idx)
    /\ \/ pc' = "call" /\ UNCHANGED <<messages, openFailed>>
       \/ Warn /\ openFailed' = openFailed \cup {idx}
    /\ UNCHANGED <<uploaded, api_key, idx, all_data, text, parsed, k, ui,
                   exports, sent, textOf, parsedOf, origin>>
    /\ UNCHANGED fnVars

\* Lines 72-75: generate_content is called and returns a text, or raises.
GenerateContent ==
    /\ pc = "call"
    /\ sent' = Append(sent, idx)
    /\ \/ \E r \in RunTexts :
            /\ text' = r
            /\ textOf' = [textOf EXCEPT ![idx] = r]
            /\ pc' = "parse"
            /\ UNCHANGED messages
       \/ Warn /\ UNCHANGED <<text, textOf>>
    /\ UNCHANGED <<uploaded, api_key, idx, all_data, parsed, k, ui,
                   exports, opened, openFailed, origin, parsedOf>>
    /\ UNCHANGED fnVars

\* Lines 77-82: clean_text, json.loads (which may raise), the wrap of a dict.
ParseResponse ==
    /\ pc = "parse"
    /\ LET p == Normalize(text)
       IN  \/ /\ p.kind # "fail"
              /\ parsed' = p
              /\ parsedOf' = [parsedOf EXCEPT ![idx] = p]
              /\ k' = 1
              /\ pc' = "flatten"
              /\ UNCHANGED messages
           \/ /\ p.kind = "fail"
              /\ Warn
              /\ UNCHANGED <<parsed, parsedOf, k>>
    /\ UNCHANGED <<uploaded, api_key, idx, all_data, text, ui,
                   exports, opened, openFailed, sent, textOf, origin>>
    /\ UNCHANGED fnVars

\* all_data.insert(0, flat_data) in place of line 94.
PrependRow(table, row) == <<row>> \o table

\* Line 94: all_data.append(flat_data).
AppendRow(table, row) == Append(table, row)

\* Lines 84-94, one turn of the for loop: parsed is not iterable (raises),
\* is exhausted, or its next entry is flattened and appended, or flattening
\* it raises.
FlattenEntry ==
    /\ pc = "flatten"
    /\ \/ /\ ~Iterable(parsed)
          /\ Warn
          /\ UNCHANGED <<all_data, origin, k>>
       \/ /\ Iterable(parsed)
          /\ k > Len(Elements(parsed))
          /\ pc' = "success"
          /\ UNCHANGED <<all_data, origin, k, messages>>
       \/ /\ Iterable(parsed)
          /\ k <= Len(Elements(parsed))
          /\ Flatten(Elements(parsed)[k]).ok
          /\ all_data' = AppendRow(all_data, Flatten(Elements(parsed)[k]).row)
          /\ origin' = Append(origin, <<idx, k>>)
          /\ k' = k + 1
          /\ UNCHANGED <<pc, messages>>
       \/ /\ Iterable(parsed)
          /\ k <= Len(Elements(parsed))
          /\ ~Flatten(Elements(parsed)[k]).ok
          /\ Warn
          /\ UNCHANGED <<all_data, origin, k>>
    /\ UNCHANGED <<uploaded, api_key, idx, text, parsed, ui,
                   exports, opened, openFailed, sent, textOf, parsedOf>>
    /\ UNCHANGED fnVars

\* Lines 102-119: the spreadsheet is written and the download offered, or
\* the error is shown.
ExportBlock ==
    \/ /\ all_data # <<>>
       /\ exports' = exports + 1
       /\ ui' = ui \cup {"table", "download"}
    \/ /\ all_data = <<>>
       /\ exports' = exports
       /\ ui' = ui \cup {"error"}

\* Line 96 with the block of lines 102-119 indented into the loop.
SuccessThenExport ==
    /\ messages' = Append(messages,
                          [kind |-> "success", img |-> idx, n |-> Len(Elements(parsed))])
    /\ ExportBlock

\* Line 96: st.success with len(parsed).
ReportSuccess ==
    /\ messages' = Append(messages,
                          [kind |-> "success", img |-> idx, n |-> Len(Elements(parsed))])
    /\ UNCHANGED <<exports, ui>>

Success ==
    /\ pc = "success"
    /\ ReportSuccess
    /\ pc' = "loop"
    /\ UNCHANGED <<uploaded, api_key, idx, all_data, text, parsed, k,
                   opened, openFailed, sent, textOf, parsedOf, origin>>
    /\ UNCHANGED fnVars

\* Lines 101-119, after the loop.
Export ==
    /\ pc = "export"
    /\ ExportBlock
    /\ pc' = "done"
    /\ UNCHANGED <<uploaded, api_key, idx, all_data, text, parsed, k, messages,
                   opened, openFailed, sent, textOf, parsedOf, origin>>
    /\ UNCHANGED fnVars

Next ==
    \/ Start
    \/ InitClient
    \/ Button
    \/ NextImage
    \/ OpenImage
    \/ GenerateContent
    \/ ParseResponse
    \/ FlattenEntry
    \/ Success
    \/ Export

Spec == Init /\ [][Next]_vars

\* ------------------------------------- the normalizer on its own inputs

\* The pieces a response text is made of.
Chunks ==
    {Ticks, <<"tick">>, <<"json">>, <<"nl">>, <<" ">>, <<"[", "o1", "]">>, <<"o1">>,
     <<"[">>, <<"]">>, <<",">>, <<"o4">>, <<"5">>, <<"x">>}

RECURSIVE TextsOf(_)
TextsOf(n) ==
    IF n = 0 THEN {<<>>}
    ELSE LET shorter == TextsOf(n - 1)
         IN  shorter \cup {t \o c : t \in shorter, c \in Chunks}

Texts == TextsOf(MaxParts)

NormInit ==
    /\ RunIdle
    /\ fnPc = "text"
    /\ fnText \in Texts
    /\ fnEntry = NonDict("num")
    /\ fnOut = NoOut

\* Lines 77-82 on the text as it is.
NormalizeBare ==
    /\ fnPc = "text"
    /\ fnOut' = [fnOut EXCEPT !.bare = Normalize(fnText)]
    /\ fnPc' = "bare"
    /\ UNCHANGED <<fnText, fnEntry>>
    /\ UNCHANGED runVars

\* Lines 77-82 on the same text between fence lines.
NormalizeFenced ==
    /\ fnPc = "bare"
    /\ \E tag \in {<<"json">>, <<>>}, tail \in {<<>>, <<"nl">>} :
          fnOut' = [fnOut EXCEPT !.fenced = Normalize(FencedBy(tag, fnText, tail))]
    /\ fnPc' = "both"
    /\ UNCHANGED <<fnText, fnEntry>>
    /\ UNCHANGED runVars

NormNext == NormalizeBare \/ NormalizeFenced

SpecNorm == NormInit /\ [][NormNext]_vars

\* -------------------------------------- the flattener on its own inputs

PartialFns(keys, vals) == UNION {[d -> vals] : d \in SUBSET keys}

RECURSIVE SeqsUpTo(_, _)
SeqsUpTo(vals, n) ==
    IF n = 0 THEN {<<>>}
    ELSE LET shorter == SeqsUpTo(vals, n - 1)
         IN  shorter \cup {Append(q, v) : q \in shorter, v \in vals}

\* The entries of the data model: any subset of the six keys, LocationDetails
\* a mapping with any subset of the two landmarks, ContactNumbers a list of
\* strings, with or without a key outside the schema.
ParsedEntries ==
    {Dict(str, loc[1], loc[2], con[1], con[2], extra) :
        str \in PartialFns(StrKeys, StrVals),
        loc \in {<<"absent", NoStr>>} \cup ({"map"} \X PartialFns(LandKeys, StrVals)),
        con \in {<<"absent", <<>> >>} \cup ({"list"} \X SeqsUpTo(Phones, MaxContacts)),
        extra \in BOOLEAN}

\* Values the model may return in an entry's place.
OtherEntries ==
    {NonDict("num"), NonDict("list"), NonDict("str"),
     Dict(NoStr, "null", NoStr, "absent", <<>>, FALSE),
     Dict(NoStr, "absent", NoStr, "null", <<>>, FALSE)}

FlatInit ==
    /\ RunIdle
    /\ fnPc = "entry"
    /\ fnText = <<>>
    /\ fnEntry \in ParsedEntries \cup OtherEntries
    /\ fnOut = NoOut

\* Lines 85-93 on one entry.
FlattenOne ==
    /\ fnPc = "entry"
    /\ fnOut' = [fnOut EXCEPT !.flat = Flatten(fnEntry)]
    /\ fnPc' = "flat"
    /\ UNCHANGED <<fnText, fnEntry>>
    /\ UNCHANGED runVars

FlatNext == FlattenOne

SpecFlat == FlatInit /\ [][FlatNext]_vars

\* ----------------------------------------------------------- the claims

Count(seq, x) == Cardinality({a \in 1..Len(seq) : seq[a] = x})

Increasing(seq) == \A a, b \in 1..Len(seq) : a < b => seq[a] < seq[b]

Warned(i) == \E a \in 1..Len(messages) : messages[a] = [kind |-> "warning", img |-> i, n |-> 0]

Succeeded(i) ==
    \E a \in 1..Len(messages) : messages[a].kind = "success" /\ messages[a].img = i

\* The image has reached a terminal state: its success or its warning is shown.
Terminal(i) == Succeeded(i) \/ Warned(i)

\* The for loop of line 67 has run to its end.
LoopFinished == pc = "export" \/ (pc = "done" /\ ui \cap {"download", "error"} # {})

\* One terminal message per image, in upload order.
OneMessageEach == \A a \in 1..Len(messages) : messages[a].img = a

RECURSIVE SumEntries(_)
\* The entry counts the success messages report, added up.
SumEntries(msgs) ==
    IF msgs = <<>> THEN 0
    ELSE (IF msgs[1].kind = "success" THEN msgs[1].n ELSE 0) + SumEntries(Tail(msgs))

RECURSIVE RowsFrom(_, _)
\* The rows of the table that image i's entries were appended as, in order.
RowsFrom(i, a) ==
    IF a > Len(origin) \/ a > Len(all_data) THEN <<>>
    ELSE (IF origin[a][1] = i THEN <<all_data[a]>> ELSE <<>>) \o RowsFrom(i, a + 1)

IsPrefix(p, q) == Len(p) <= Len(q) /\ \A a \in 1..Len(p) : p[a] = q[a]

\* <<image, entry>> pairs in processing order.
Before(x, y) == x[1] < y[1] \/ (x[1] = y[1] /\ x[2] < y[2])

\* C1 as stated: once the loop has finished, every uploaded image was sent
\* to the model exactly once, in upload order, and has exactly one terminal
\* message, whatever failed.
C1_EverySentExactlyOnce ==
    LoopFinished =>
        /\ \A i \in 1..uploaded : Count(sent, i) = 1
        /\ Increasing(sent)
        /\ Len(messages) = uploaded
        /\ OneMessageEach

\* C1 as amended: at every point every image started so far was opened
\* exactly once, in upload order; an image with a terminal message was sent
\* to the model exactly once, or never when opening it failed; the sends are
\* in upload order; there is one terminal message per image, in upload
\* order; and once the loop has finished every uploaded image has one.
C1_EveryImageAttemptedOnce ==
    /\ \A a \in 1..Len(opened) : opened[a] = a
    /\ Len(opened) = (IF pc = "open" THEN idx - 1 ELSE idx)
    /\ Increasing(sent)
    /\ \A a \in 1..Len(sent) : sent[a] \in 1..idx
    /\ OneMessageEach
    /\ Len(messages) \in {n \in {idx - 1, idx} : n >= 0}
    /\ \A i \in 1..Len(messages) :
          /\ Count(sent, i) = (IF i \in openFailed THEN 0 ELSE 1)
          /\ Succeeded(i) # Warned(i)
    /\ LoopFinished => Len(messages) = uploaded

\* C1's case: the first image could not be opened and was never sent, the
\* second was sent and failed, the third was still sent and succeeded.
C1_Witness ==
    /\ LoopFinished
    /\ uploaded >= 3
    /\ 1 \in openFailed
    /\ Warned(1) /\ Warned(2) /\ Succeeded(3)
    /\ sent = <<2, 3>>

\* C2: once the loop has finished the table has exactly as many rows as the
\* successful images had entries, and there is one warning per failed image.
C2_RowsAreSuccessfulEntries ==
    LoopFinished =>
        /\ Len(all_data) = SumEntries(messages)
        /\ Cardinality({i \in 1..uploaded : Warned(i)})
             = uploaded - Cardinality({i \in 1..uploaded : Succeeded(i)})

\* C3: after the loop the download is offered exactly when the table has a
\* row, the error is shown exactly when it has none, and when every image
\* failed no download is offered and the error is shown.
C3_DownloadIffRows ==
    (pc = "done" /\ LoopFinished) =>
        /\ ("download" \in ui) <=> (all_data # <<>>)
        /\ ("error" \in ui) <=> (all_data = <<>>)
        /\ (\A i \in 1..uploaded : Warned(i)) => ("download" \notin ui /\ "error" \in ui)

\* C4: with the API key missing or the client's initialization failed, no
\* image is opened or sent, no row is produced, nothing is exported or
\* offered, and the run is over.
C4_NoKeyNoProcessing ==
    (~api_key \/ "init_error" \in ui) =>
        /\ opened = <<>>
        /\ sent = <<>>
        /\ all_data = <<>>
        /\ origin = <<>>
        /\ messages = <<>>
        /\ exports = 0
        /\ "download" \notin ui
        /\ pc \in {"start", "done"}
        /\ "init_error" \in ui => pc = "done"

C4_Witness == pc = "done" /\ "init_error" \in ui /\ uploaded >= 2 /\ api_key

\* C5: the normalizer gives a text between fence lines the parsed value it
\* gives the text itself (a failure to parse for a failure to parse).
C5_FencedParsesAsBare == fnPc = "both" => fnOut.fenced = fnOut.bare

C5_Witness ==
    /\ fnPc = "both"
    /\ fnText = <<"[", "o1", "]", "nl">>
    /\ fnOut.fenced.kind = "list"
    /\ fnOut.fenced.items = <<Obj("o1")>>

\* C6: an image answered with one object and an image answered with the
\* one-element array of the same object end the same way and give the same
\* rows.
C6_ObjectAsOneElementArray ==
    \A i, j \in 1..Len(messages) : \A o \in ObjNames :
        (textOf[i] = <<o>> /\ textOf[j] = <<"[", o, "]">>) =>
            /\ RowsFrom(i, 1) = RowsFrom(j, 1)
            /\ messages[i].kind = messages[j].kind
            /\ messages[i].n = messages[j].n

C6_Witness ==
    /\ Len(messages) >= 2
    /\ textOf[1] = <<"o3">>
    /\ textOf[2] = <<"[", "o3", "]">>
    /\ Len(RowsFrom(1, 1)) = 1
    /\ RowsFrom(1, 1) = RowsFrom(2, 1)

RECURSIVE JoinFromLeft(_)
\* The elements with ", " between each two, built from the left.
JoinFromLeft(seq) ==
    IF seq = <<>> THEN ""
    ELSE IF Len(seq) = 1 THEN seq[1]
    ELSE JoinFromLeft(SubSeq(seq, 1, Len(seq) - 1)) \o ", " \o seq[Len(seq)]

\* C7: flattening an entry of the data model does not raise and gives one
\* record with the seven columns: a missing key gives "", each landmark is
\* "" on its own when it or LocationDetails is missing, ContactNumbers is
\* the list joined with ", " ("" when missing or empty), and no other key
\* appears.
C7_FlattenTotal ==
    (fnPc = "flat" /\ fnEntry \in ParsedEntries) =>
        LET e == fnEntry
            row == fnOut.flat.row
        IN  /\ fnOut.flat.ok
            /\ DOMAIN row = Columns
            /\ \A c \in StrKeys : row[c] = (IF c \in DOMAIN e.str THEN e.str[c] ELSE "")
            /\ \A c \in LandKeys :
                  row[c] = (IF e.loc = "map" /\ c \in DOMAIN e.lm THEN e.lm[c] ELSE "")
            /\ row["ContactNumbers"] = (IF e.con = "list" THEN JoinFromLeft(e.nums) ELSE "")

C7_Witness ==
    /\ fnPc = "flat"
    /\ fnEntry = Dict([c \in {"HostelName"} |-> "A"], "map", [c \in {"Landmark2"} |-> "A"],
                      "absent", <<>>, TRUE)
    /\ fnOut.flat.ok
    /\ fnOut.flat.row["HostelName"] = "A"
    /\ fnOut.flat.row["Landmark1"] = ""
    /\ fnOut.flat.row["ContactNumbers"] = ""

\* C8: every step keeps the rows the table already has, in place, and after
\* it the table's rows are, in order, the flattened entries of the append
\* calls made so far, which run through the images in upload order and
\* through each image's entries in response order.
C8_TableInProcessingOrder ==
    [][/\ IsPrefix(all_data, all_data')
       /\ Len(all_data') = Len(origin')
       /\ \A a \in 1..Len(all_data') :
             all_data'[a] = Flatten(Elements(parsedOf'[origin'[a][1]])[origin'[a][2]]).row
       /\ \A a, b \in 1..Len(origin') : a < b => Before(origin'[a], origin'[b])]_vars

C8_Witness ==
    /\ Len(all_data) >= 3
    /\ origin[1] = <<1, 1>>
    /\ origin[2] = <<1, 2>>
    /\ origin[3][1] = 3
    /\ all_data[1] # all_data[2]

\* C9: the spreadsheet is written at most once, and it is written, shown or
\* offered only when the run is past the loop with every uploaded image in a
\* terminal state.
C9_ExportOnceAfterLoop ==
    /\ exports <= 1
    /\ (exports > 0 \/ ui \cap {"table", "download", "error"} # {}) =>
          /\ pc = "done"
          /\ idx = uploaded
          /\ \A i \in 1..uploaded : Terminal(i)

C9_Witness ==
    /\ exports = 1
    /\ "download" \in ui
    /\ uploaded >= 2
    /\ Succeeded(1)
    /\ Warned(uploaded)

\* C10: an image that ended with a warning has no row in the table.
C10_FailedImageAddsNoRows ==
    \A i \in 1..uploaded : Warned(i) => \A a \in 1..Len(origin) : origin[a][1] # i

====
